---------------------------- MODULE Spec2Model ----------------------------
(***************************************************************************)
(* MDRD GFR calculator (src/main.py): the POST /calculate endpoint.        *)
(*                                                                         *)
(* A request carries the four form fields of GFRFormInput.  The framework  *)
(* validates them against the Field constraints (422 on failure) and, for  *)
(* an accepted request, calls calculate_gfr, which evaluates the MDRD      *)
(* equation in floating point and rounds the value to one decimal place.   *)
(*                                                                         *)
(* Numbers.  A Python float is modelled as a decimal floating-point number *)
(* [m, e] standing for m * 10^e with an 8-digit mantissa                   *)
(* (MantLo <= m < MantHi) or m = 0; every multiplication rounds its exact  *)
(* product to 8 digits, half to even.  The C library's pow is modelled as  *)
(* exp(y * ln(x)), both evaluated by series in fixed point with 8 decimal  *)
(* places (unit Q8).  All intermediate integers stay below 2^31.  The      *)
(* model's precision is about 1e-8 relative, against 1e-16 for binary64:   *)
(* a value that lies within that distance of a rounding tie can round the  *)
(* other way than the code does.                                           *)
(***************************************************************************)
EXTENDS Integers, Sequences, FiniteSets, TLC

(***************************************************************************)
(* State: the invocations of the endpoint.  Each has its own request, its  *)
(* own GFRFormInput instance and its own response; the module holds no     *)
(* other object.                                                           *)
(***************************************************************************)
NumInvocations == 3
Inv == 1 .. NumInvocations

VARIABLES
    pc,     \* pc[i]: idle, received, validated, rejected, done or failed
    req,    \* req[i]: the form fields as posted
    data,   \* data[i]: the validated GFRFormInput handed to calculate_gfr
    resp    \* resp[i]: the response
vars == <<pc, req, data, resp>>

(***************************************************************************)
(* Float representation                                                    *)
(***************************************************************************)
MantLo == 10 ^ 7
MantHi == 10 ^ 8
Q8 == 10 ^ 8
Half == 10 ^ 4

Zero == [m |-> 0, e |-> 0]

Abs(x) == IF x < 0 THEN -x ELSE x

RECURSIVE Pow10(_)
Pow10(n) == IF n <= 0 THEN 1 ELSE 10 * Pow10(n - 1)

\* the float m * 10^e, for an integer 0 <= m < MantHi that needs no rounding
RECURSIVE Norm(_, _)
Norm(m, e) ==
    IF m = 0 THEN Zero
    ELSE IF m < MantLo THEN Norm(m * 10, e - 1)
    ELSE [m |-> m, e |-> e]

\* int -> float conversion (int * float promotes the int)
FromInt(n) == Norm(n, 0)

\* m plus one when the dropped fraction num/den rounds up (half to even)
RoundHalfEven(m, num, den) ==
    IF 2 * num > den \/ (2 * num = den /\ m % 2 = 1) THEN m + 1 ELSE m

\* a mantissa that rounding carried up to MantHi is renormalised
Carry(m, e) == IF m >= MantHi THEN [m |-> m \div 10, e |-> e + 1]
               ELSE [m |-> m, e |-> e]

\* float * float: the exact product of the mantissas is
\*   hi * 10^8 + (x + y) * 10^4 + lo,  rounded to 8 digits
FMul(a, b) ==
    IF a.m = 0 \/ b.m = 0 THEN Zero
    ELSE LET ah == a.m \div Half
             al == a.m % Half
             bh == b.m \div Half
             bl == b.m % Half
             hi == ah * bh
             mid == ah * bl + al * bh
             lo == al * bl
             q == mid \div 1000
             r == mid % 1000
             low == r * Half + lo
             T == hi * 10 + q + (low \div MantLo)
             R == low % MantLo
         IN  IF T < MantHi
             THEN Carry(RoundHalfEven(T, R, MantLo), a.e + b.e + 7)
             ELSE Carry(RoundHalfEven(T \div 10, (T % 10) * MantLo + R, MantHi),
                        a.e + b.e + 8)

\* float comparison (non-negative floats)
FLess(a, b) ==
    IF a.m = 0 THEN b.m > 0
    ELSE IF b.m = 0 THEN FALSE
    ELSE a.e < b.e \/ (a.e = b.e /\ a.m < b.m)

FLeq(a, b) == a = b \/ FLess(a, b)

(***************************************************************************)
(* Fixed-point helpers (unit Q8), used inside pow only                     *)
(***************************************************************************)
\* |a| * |b| / 10^8 rounded to the nearest integer, with the sign of a * b
MulQ(a, b) ==
    LET x == Abs(a)
        y == Abs(b)
        xh == x \div Half
        xl == x % Half
        yh == y \div Half
        yl == y % Half
        X == xh * yl
        Y == xl * yh
        mag == xh * yh + (X \div Half) + (Y \div Half)
               + ((((X % Half) + (Y % Half)) * Half + xl * yl + (Q8 \div 2)) \div Q8)
    IN  IF (a < 0) = (b < 0) THEN mag ELSE -mag

\* floor(a * 10^8 / b) for 0 <= a < b: long division, the radix 10 taken
\* as a step of 2 and a step of 5 so that the remainder never overflows
RECURSIVE DivSteps(_, _, _, _)
DivSteps(q, r, b, n) ==
    IF n = 0 THEN q
    ELSE LET r2 == 2 * r
             q2 == 2 * q + (r2 \div b)
             r5 == 5 * (r2 % b)
         IN  DivSteps(5 * q2 + (r5 \div b), r5 % b, b, n - 1)

DivQ(a, b) == IF a < 0 THEN -DivSteps(0, -a, b, 8) ELSE DivSteps(0, a, b, 8)

LN2 == 69314718
LN10 == 230258509

\* sum of the series 1 + w/3 + w^2/5 + ... + w^6/13 by Horner's rule
RECURSIVE AtanhSeries(_, _, _)
AtanhSeries(w, s, k) ==
    IF k < 1 THEN s
    ELSE AtanhSeries(w, (Q8 \div k) + MulQ(w, s), k - 2)

\* ln of a float x > 0, in Q8.  x = v * 10^(e+7) with 1 <= v < 10; v is
\* halved until it lies in [0.75, 1.5) and ln v = 2 atanh((v-1)/(v+1)).
Ln(x) ==
    LET v == x.m * 10
        k == IF v < 150000000 THEN 0
             ELSE IF v < 300000000 THEN 1
             ELSE IF v < 600000000 THEN 2 ELSE 3
        u == v \div (2 ^ k)
        z == DivQ(u - Q8, u + Q8)
        s == AtanhSeries(MulQ(z, z), Q8 \div 13, 11)
    IN  2 * MulQ(z, s) + k * LN2 + (x.e + 7) * LN10

\* sum of the series 1 + r + r^2/2! + ... + r^n/n! by Horner's rule
RECURSIVE ExpSeries(_, _, _)
ExpSeries(r, s, n) ==
    IF n = 0 THEN s
    ELSE ExpSeries(r, Q8 + ((2 * MulQ(r, s) + n) \div (2 * n)), n - 1)

\* the float 2^k
Pow2(k) == IF k >= 0 THEN Norm(2 ^ k, 0) ELSE Norm(5 ^ (-k), k)

\* Q8 -> float, for 0 < s < 10^9
FromQ(s) == IF s >= MantHi
            THEN Carry(RoundHalfEven(s \div 10, s % 10, 10), -7)
            ELSE Norm(s, -8)

\* e^y as a float: y = k ln 2 + r with |r| <= ln(2)/2
Exp(y) ==
    LET k == (y + (LN2 \div 2)) \div LN2
        r == y - k * LN2
    IN  FMul(FromQ(ExpSeries(r, Q8, 11)), Pow2(k))

(***************************************************************************)
(* Python semantics of the operators the handler uses                      *)
(***************************************************************************)
\* x ** y for a float x >= 0 and a negative exponent y (in Q8): pow raises
\* ZeroDivisionError for x = 0, and is exp(y ln x) otherwise
PowRaises(x) == x.m = 0

PyPow(x, y) == Exp(MulQ(y, Ln(x)))

\* round(x, 1): the nearest multiple of 0.1, a tie going to the even one
PyRound1(x) ==
    IF x.m = 0 \/ x.e >= -1 THEN x
    ELSE IF x.e < -9 THEN Zero
    ELSE LET d == Pow10(-1 - x.e)
         IN  Norm(RoundHalfEven(x.m \div d, x.m % d, d), -1)

\* str.lower() on the strings a request can carry
Lower(s) == IF s = "Female" THEN "female"
            ELSE IF s = "Male" THEN "male" ELSE s

(***************************************************************************)
(* GFRFormInput: the Field constraints                                     *)
(***************************************************************************)
AgeGe == 18
AgeLe == 120
\* serum_creatinine bounds 0.1 and 15.0, in units of 10^-6 mg/dL
CreatinineGe == 100000
CreatinineLe == 15000000

FieldNames == {"age", "serum_creatinine", "biological_sex", "race_is_black"}

\* a request field given as a float, in units of 10^-6
FromMicro(c) == Norm(c, -6)

\* variant: the lower bound of the other deployment, ge=1
age_ok_from_one(r) == "age" \in r.present /\ r.age >= 1 /\ r.age <= AgeLe

age_ok(r) == "age" \in r.present /\ r.age >= AgeGe /\ r.age <= AgeLe

\* variant: exclusive bounds, gt and lt in place of ge and le
serum_creatinine_ok_exclusive(r) ==
    /\ "serum_creatinine" \in r.present
    /\ r.serum_creatinine > CreatinineGe
    /\ r.serum_creatinine < CreatinineLe

serum_creatinine_ok(r) ==
    /\ "serum_creatinine" \in r.present
    /\ r.serum_creatinine >= CreatinineGe
    /\ r.serum_creatinine <= CreatinineLe

biological_sex_ok(r) ==
    "biological_sex" \in r.present /\ r.biological_sex \in {"male", "female"}

race_is_black_ok(r) == "race_is_black" \in r.present

\* the fields of request r that fail validation (all are required)
GFRFormInput(r) ==
    {f \in FieldNames :
        \/ f = "age" /\ ~age_ok(r)
        \/ f = "serum_creatinine" /\ ~serum_creatinine_ok(r)
        \/ f = "biological_sex" /\ ~biological_sex_ok(r)
        \/ f = "race_is_black" /\ ~race_is_black_ok(r)}

(***************************************************************************)
(* calculate_gfr                                                           *)
(***************************************************************************)
\* variant: the coefficient of the original (non-IDMS) MDRD equation, 186
Coefficient186 == 175 + 11

Coefficient == 175
\* the exponents -1.154 and -0.203, in Q8
CreatinineExponent == -115400000
AgeExponent == -20300000

FemaleFactor == Norm(742, -3)
BlackFactor == Norm(1212, -3)
One == FromInt(1)

\* variant: the factor applied to the other sex
gender_factor_swapped(d) ==
    IF Lower(d.biological_sex) = "male" THEN FemaleFactor ELSE One

\* variant: the digits of the factor transposed, 0.724
gender_factor_typo(d) ==
    IF Lower(d.biological_sex) = "female" THEN Norm(724, -3) ELSE One

\* variant: the sex read from module-level state that every request in
\* flight writes, instead of from the invocation's own data
gender_factor_shared(d) ==
    IF \E j \in Inv : pc[j] # "idle" /\ req[j].biological_sex = "female"
    THEN FemaleFactor ELSE One

gender_factor(d) ==
    IF Lower(d.biological_sex) = "female" THEN FemaleFactor ELSE One

\* variant: the factor applied when race_is_black is false
race_factor_inverted(d) == IF d.race_is_black THEN One ELSE BlackFactor

race_factor(d) == IF d.race_is_black THEN BlackFactor ELSE One

\* variant: age raised to +0.203
gfr_value_age_positive(d) ==
    FMul(FMul(FMul(FMul(FromInt(Coefficient),
                        PyPow(FromMicro(d.serum_creatinine), CreatinineExponent)),
                   PyPow(FromInt(d.age), -AgeExponent)),
              gender_factor(d)),
         race_factor(d))

\* variant: creatinine raised to +1.154
gfr_value_creatinine_positive(d) ==
    FMul(FMul(FMul(FMul(FromInt(Coefficient),
                        PyPow(FromMicro(d.serum_creatinine), -CreatinineExponent)),
                   PyPow(FromInt(d.age), AgeExponent)),
              gender_factor(d)),
         race_factor(d))

\* 175 * creatinine ** -1.154 * age ** -0.203 * gender_factor * race_factor,
\* multiplied left to right
gfr_value(d) ==
    FMul(FMul(FMul(FMul(FromInt(Coefficient),
                        PyPow(FromMicro(d.serum_creatinine), CreatinineExponent)),
                   PyPow(FromInt(d.age), AgeExponent)),
              gender_factor(d)),
         race_factor(d))

GFRFormOutput(g) == [status |-> 200, gfr |-> g]

\* variant: the value returned without rounding
calculate_gfr_unrounded(d) ==
    IF PowRaises(FromMicro(d.serum_creatinine)) \/ PowRaises(FromInt(d.age))
    THEN [status |-> 500]
    ELSE GFRFormOutput(gfr_value(d))

\* the handler: an exception raised by ** leaves as a 500 response
calculate_gfr(d) ==
    IF PowRaises(FromMicro(d.serum_creatinine)) \/ PowRaises(FromInt(d.age))
    THEN [status |-> 500]
    ELSE GFRFormOutput(PyRound1(gfr_value(d)))

(***************************************************************************)
(* Requests                                                                *)
(***************************************************************************)
\* ages sent: every age from AgeMargin below the lower bound to AgeMargin
\* above the upper bound, and 150
AgeMargin == 1
Ages == ((AgeGe - AgeMargin) .. (AgeLe + AgeMargin)) \cup {150}

Creatinines == {0, 99999, 100000, 1000000, 1000001, 1200000, 4000000, 14900000,
                15000000, 15000001}
Sexes == {"male", "female", "Female", "unknown"}

Request(a, c, s, b) ==
    [present |-> FieldNames, age |-> a, serum_creatinine |-> c,
     biological_sex |-> s, race_is_black |-> b]

\* request r with field f left out
Without(r, f) ==
    [present |-> r.present \ {f},
     age |-> IF f = "age" THEN 0 ELSE r.age,
     serum_creatinine |-> IF f = "serum_creatinine" THEN 0 ELSE r.serum_creatinine,
     biological_sex |-> IF f = "biological_sex" THEN "" ELSE r.biological_sex,
     race_is_black |-> IF f = "race_is_black" THEN FALSE ELSE r.race_is_black]

Reference == Request(45, 1200000, "male", FALSE)

GridRequests ==
    {Request(a, c, s, b) : a \in Ages, c \in Creatinines, s \in Sexes,
                           b \in BOOLEAN}
    \cup {Without(Reference, f) : f \in FieldNames}

ConcurrentRequests ==
    {Request(45, 1200000, s, b) : s \in {"male", "female"}, b \in BOOLEAN}
    \cup {Request(17, 1200000, "male", FALSE)}

\* the GFRFormInput instances validation can hand to the handler, and the
\* handler as a function on them
Models == {r \in GridRequests : r.present = FieldNames}
Handler == [d \in Models |-> calculate_gfr(d)]

NoRequest == [present |-> {}, age |-> 0, serum_creatinine |-> 0,
              biological_sex |-> "", race_is_black |-> FALSE]
NoResponse == [status |-> 0]

(***************************************************************************)
(* The endpoint                                                            *)
(***************************************************************************)
Init ==
    /\ pc = [i \in Inv |-> "idle"]
    /\ req = [i \in Inv |-> NoRequest]
    /\ data = [i \in Inv |-> NoRequest]
    /\ resp = [i \in Inv |-> NoResponse]

\* a client posts request r
Receive(i, r) ==
    /\ pc[i] = "idle"
    /\ pc' = [pc EXCEPT ![i] = "received"]
    /\ req' = [req EXCEPT ![i] = r]
    /\ UNCHANGED <<data, resp>>

\* the framework builds the GFRFormInput, or answers 422 naming the fields
Validate(i) ==
    /\ pc[i] = "received"
    /\ LET errors == GFRFormInput(req[i])
       IN  IF errors = {}
           THEN /\ pc' = [pc EXCEPT ![i] = "validated"]
                /\ data' = [data EXCEPT ![i] = req[i]]
                /\ UNCHANGED resp
           ELSE /\ pc' = [pc EXCEPT ![i] = "rejected"]
                /\ resp' = [resp EXCEPT ![i] = [status |-> 422, detail |-> errors]]
                /\ UNCHANGED data
    /\ UNCHANGED req

\* the handler runs to completion (it never awaits)
Calculate(i) ==
    /\ pc[i] = "validated"
    /\ LET out == Handler[data[i]]
       IN  /\ resp' = [resp EXCEPT ![i] = out]
           /\ pc' = [pc EXCEPT ![i] = IF out.status = 200 THEN "done" ELSE "failed"]
    /\ UNCHANGED <<req, data>>

\* the response is sent and the invocation's objects are dropped
Respond(i) ==
    /\ pc[i] \in {"done", "rejected", "failed"}
    /\ pc' = [pc EXCEPT ![i] = "idle"]
    /\ req' = [req EXCEPT ![i] = NoRequest]
    /\ data' = [data EXCEPT ![i] = NoRequest]
    /\ resp' = [resp EXCEPT ![i] = NoResponse]

\* one request in flight at a time, any request of the grid: every request
\* is served by invocation 1
Next ==
    \/ \E r \in GridRequests : Receive(1, r)
    \/ Validate(1)
    \/ Calculate(1)
    \/ Respond(1)

Spec == Init /\ [][Next]_vars

\* the server runs every request it has received to its response
Fairness == WF_vars(Validate(1)) /\ WF_vars(Calculate(1))

FairSpec == Spec /\ Fairness

\* any number of requests in flight, interleaved at every step
ConcurrentNext ==
    \E i \in Inv :
        \/ \E r \in ConcurrentRequests : Receive(i, r)
        \/ Validate(i)
        \/ Calculate(i)
        \/ Respond(i)

ConcurrentSpec == Init /\ [][ConcurrentNext]_vars

(***************************************************************************)
(* Vocabulary of the properties                                            *)
(***************************************************************************)
\* the declared bounds, as the specification states them
InBounds(r) ==
    /\ r.present = FieldNames
    /\ r.age \in 18 .. 120
    /\ r.serum_creatinine >= 100000 /\ r.serum_creatinine <= 15000000
    /\ r.biological_sex \in {"male", "female"}

\* the equation as the specification writes it
SpecSexFactor(r) == IF r.biological_sex = "female" THEN Norm(742, -3) ELSE FromInt(1)
SpecRaceFactor(r) == IF r.race_is_black THEN Norm(1212, -3) ELSE FromInt(1)
SpecEgfr(r) ==
    FMul(FMul(FMul(FMul(FromInt(175),
                        PyPow(FromMicro(r.serum_creatinine), -115400000)),
                   PyPow(FromInt(r.age), -20300000)),
              SpecSexFactor(r)),
         SpecRaceFactor(r))

\* x has at most one digit after the decimal point
OneDecimal(x) == x.m = 0 \/ x.e >= -1 \/ x.m % Pow10(-1 - x.e) = 0

\* a one-decimal float as a whole number of tenths
Tenths(x) == IF x.m = 0 THEN 0
             ELSE IF x.e >= -1 THEN x.m * Pow10(x.e + 1)
             ELSE x.m \div Pow10(-1 - x.e)

Returned(i) == pc[i] = "done" /\ resp[i].status = 200

\* what the endpoint returns for request r
Result(r) == calculate_gfr(r).gfr

WithSex(r, s) == [r EXCEPT !.biological_sex = s]
WithRace(r, b) == [r EXCEPT !.race_is_black = b]
WithAge(r, a) == [r EXCEPT !.age = a]
WithCreatinine(r, c) == [r EXCEPT !.serum_creatinine = c]

ValidCreatinines == {c \in Creatinines : c >= 100000 /\ c <= 15000000}

(***************************************************************************)
(* C1: every accepted request is answered with the MDRD equation's value   *)
(* rounded to one decimal place, with factor 0.742 for female and 1.212    *)
(* for black; the returned value has at most one digit after the point.    *)
(***************************************************************************)
C1_EquationRounded ==
    \A i \in Inv :
        pc[i] \in {"done", "failed"} =>
            /\ Returned(i)
            /\ resp[i].gfr = PyRound1(SpecEgfr(req[i]))
            /\ OneDecimal(resp[i].gfr)

C1_Witness ==
    \E i \in Inv :
        /\ Returned(i)
        /\ req[i].biological_sex = "female"
        /\ req[i].race_is_black
        /\ ~OneDecimal(SpecEgfr(req[i]))

(***************************************************************************)
(* C2: a request with a field outside its bounds or enumerated set, or     *)
(* with a field missing, is rejected by validation: the equation is never  *)
(* evaluated for it, no gfr is returned, no default replaces the field.    *)
(***************************************************************************)
C2_RejectedAtBoundary ==
    \A i \in Inv :
        (pc[i] \notin {"idle", "received"} /\ ~InBounds(req[i])) =>
            /\ pc[i] = "rejected"
            /\ resp[i].status = 422
            /\ "gfr" \notin DOMAIN resp[i]
            /\ resp[i].detail # {}
            /\ data[i] = NoRequest

C2_Witness ==
    \E i \in Inv :
        /\ pc[i] = "rejected"
        /\ req[i].present = FieldNames
        /\ req[i].age = 150
        /\ resp[i].detail = {"age"}

(***************************************************************************)
(* C3: every request within the declared bounds (bounds included) is       *)
(* answered with a numeric, non-negative gfr; it has no failure outcome.   *)
(***************************************************************************)
C3_NoFailure ==
    \A i \in Inv :
        (pc[i] \notin {"idle", "received"} /\ InBounds(req[i])) =>
            /\ pc[i] \in {"validated", "done"}
            /\ pc[i] = "done" =>
                  /\ resp[i].status = 200
                  /\ resp[i].gfr.m >= 0

C3_AlwaysCompletes ==
    /\ []C3_NoFailure
    /\ \A i \in Inv :
          (pc[i] = "received" /\ InBounds(req[i])) ~> (pc[i] = "done")

C3_Witness ==
    \E i \in Inv :
        /\ Returned(i)
        /\ req[i].age = 18
        /\ req[i].serum_creatinine = 100000
        /\ resp[i].gfr.m > 0

(***************************************************************************)
(* C4 as stated: the returned female result equals the returned male       *)
(* result multiplied by 0.742 (race_is_black = false).                     *)
(***************************************************************************)
C4_SexFactorOnRounded ==
    \A i \in Inv :
        (Returned(i) /\ req[i].biological_sex = "female" /\ ~req[i].race_is_black) =>
            resp[i].gfr = FMul(Result(WithSex(req[i], "male")), Norm(742, -3))

(***************************************************************************)
(* C4 amended: the returned female result is the male value before         *)
(* rounding multiplied by 0.742 and then rounded to one decimal place; it  *)
(* differs from 0.742 times the returned male result by less than 0.09.    *)
(***************************************************************************)
C4_SexFactorBeforeRounding ==
    \A i \in Inv :
        (Returned(i) /\ req[i].biological_sex = "female" /\ ~req[i].race_is_black) =>
            LET male == WithSex(req[i], "male")
            IN  /\ resp[i].gfr = PyRound1(FMul(SpecEgfr(male), Norm(742, -3)))
                /\ Abs(1000 * Tenths(resp[i].gfr) - 742 * Tenths(Result(male))) < 900

C4_Witness ==
    \E i \in Inv :
        /\ Returned(i)
        /\ req[i].biological_sex = "female"
        /\ ~req[i].race_is_black
        /\ resp[i].gfr # FMul(Result(WithSex(req[i], "male")), Norm(742, -3))

(***************************************************************************)
(* C5 as stated: the returned result for a black male equals the returned  *)
(* result for a non-black male multiplied by 1.212.                        *)
(***************************************************************************)
C5_RaceFactorOnRounded ==
    \A i \in Inv :
        (Returned(i) /\ req[i].biological_sex = "male" /\ req[i].race_is_black) =>
            resp[i].gfr = FMul(Result(WithRace(req[i], FALSE)), Norm(1212, -3))

(***************************************************************************)
(* C5 amended: the returned result for a black male is the non-black male  *)
(* value before rounding multiplied by 1.212 and then rounded to one       *)
(* decimal place; it differs from 1.212 times the returned non-black       *)
(* result by less than 0.12.                                               *)
(***************************************************************************)
C5_RaceFactorBeforeRounding ==
    \A i \in Inv :
        (Returned(i) /\ req[i].biological_sex = "male" /\ req[i].race_is_black) =>
            LET other == WithRace(req[i], FALSE)
            IN  /\ resp[i].gfr = PyRound1(FMul(SpecEgfr(other), Norm(1212, -3)))
                /\ Abs(1000 * Tenths(resp[i].gfr) - 1212 * Tenths(Result(other))) < 1200

C5_Witness ==
    \E i \in Inv :
        /\ Returned(i)
        /\ req[i].biological_sex = "male"
        /\ req[i].race_is_black
        /\ resp[i].gfr # FMul(Result(WithRace(req[i], FALSE)), Norm(1212, -3))

(***************************************************************************)
(* C6 as stated: with the other fields fixed, the returned result is       *)
(* strictly decreasing in age over 18..120.                                *)
(***************************************************************************)
C6_StrictlyDecreasingInAge ==
    \A i \in Inv :
        Returned(i) =>
            \A a \in 18 .. 120 :
                a > req[i].age => FLess(Result(WithAge(req[i], a)), resp[i].gfr)

(***************************************************************************)
(* C6 amended: with the other fields fixed, the returned result never      *)
(* increases with age: for ages a1 < a2 in 18..120 the result for a1 is    *)
(* greater than or equal to the result for a2.                             *)
(***************************************************************************)
C6_NonIncreasingInAge ==
    \A i \in Inv :
        Returned(i) =>
            \A a \in 18 .. 120 :
                a > req[i].age => FLeq(Result(WithAge(req[i], a)), resp[i].gfr)

C6_Witness ==
    \E i \in Inv :
        /\ Returned(i)
        /\ req[i].age < 120
        /\ resp[i].gfr = Result(WithAge(req[i], req[i].age + 1))
        /\ FLess(SpecEgfr(WithAge(req[i], req[i].age + 1)), SpecEgfr(req[i]))

(***************************************************************************)
(* C7 as stated: with the other fields fixed, the returned result is       *)
(* strictly decreasing in serum_creatinine over 0.1..15.0.                 *)
(***************************************************************************)
C7_StrictlyDecreasingInCreatinine ==
    \A i \in Inv :
        Returned(i) =>
            \A c \in ValidCreatinines :
                c > req[i].serum_creatinine =>
                    FLess(Result(WithCreatinine(req[i], c)), resp[i].gfr)

(***************************************************************************)
(* C7 amended: with the other fields fixed, the returned result never      *)
(* increases with serum_creatinine: for c1 < c2 in 0.1..15.0 the result    *)
(* for c1 is greater than or equal to the result for c2.                   *)
(***************************************************************************)
C7_NonIncreasingInCreatinine ==
    \A i \in Inv :
        Returned(i) =>
            \A c \in ValidCreatinines :
                c > req[i].serum_creatinine =>
                    FLeq(Result(WithCreatinine(req[i], c)), resp[i].gfr)

C7_Witness ==
    \E i \in Inv :
        /\ Returned(i)
        /\ \E c \in ValidCreatinines :
              /\ c > req[i].serum_creatinine
              /\ resp[i].gfr = Result(WithCreatinine(req[i], c))
              /\ FLess(SpecEgfr(WithCreatinine(req[i], c)), SpecEgfr(req[i]))

(***************************************************************************)
(* C8 as stated: serum_creatinine 1.2, age 45, male, not black returns a   *)
(* gfr between 66.6 and 66.8.                                              *)
(***************************************************************************)
C8_ReferenceIn666To668 ==
    \A i \in Inv :
        (Returned(i) /\ req[i] = Request(45, 1200000, "male", FALSE)) =>
            Tenths(resp[i].gfr) \in 666 .. 668

(***************************************************************************)
(* C8 amended: serum_creatinine 1.2, age 45, male, not black returns the   *)
(* gfr 65.5.                                                               *)
(***************************************************************************)
C8_ReferenceIs655 ==
    \A i \in Inv :
        (pc[i] \in {"done", "failed"} /\ req[i] = Request(45, 1200000, "male", FALSE)) =>
            Returned(i) /\ resp[i].gfr = Norm(655, -1)

C8_Witness ==
    \E i \in Inv : Returned(i) /\ req[i] = Request(45, 1200000, "male", FALSE)

(***************************************************************************)
(* C9 as stated: serum_creatinine 1.0, age 30, male, not black returns a   *)
(* gfr of approximately 94.5 (within 0.5 of it).                           *)
(***************************************************************************)
C9_BaselineNear945 ==
    \A i \in Inv :
        (Returned(i) /\ req[i] = Request(30, 1000000, "male", FALSE)) =>
            Tenths(resp[i].gfr) \in 940 .. 950

(***************************************************************************)
(* C9 amended: serum_creatinine 1.0, age 30, male, not black returns the   *)
(* gfr 87.7.                                                               *)
(***************************************************************************)
C9_BaselineIs877 ==
    \A i \in Inv :
        (pc[i] \in {"done", "failed"} /\ req[i] = Request(30, 1000000, "male", FALSE)) =>
            Returned(i) /\ resp[i].gfr = Norm(877, -1)

C9_Witness ==
    \E i \in Inv : Returned(i) /\ req[i] = Request(30, 1000000, "male", FALSE)

(***************************************************************************)
(* C10: the result of an invocation depends only on its own four inputs:   *)
(* two invocations with identical valid inputs return identical results,   *)
(* whatever other invocations are in flight or ran before.                 *)
(***************************************************************************)
C10_SameInputsSameResult ==
    \A i, j \in Inv :
        (Returned(i) /\ Returned(j) /\ req[i] = req[j]) => resp[i] = resp[j]

C10_Witness ==
    \E i, j, k \in Inv :
        /\ i # j
        /\ Returned(i) /\ Returned(j) /\ req[i] = req[j]
        /\ pc[k] # "idle" /\ req[k] # req[i]

=============================================================================
